---- MODULE Spec2Model ----
(***************************************************************************)
(* A model of the Flask task manager in src/app.py: the Task table and the *)
(* five route handlers (index, add_task, edit_task, delete_task,           *)
(* toggle_task).  The server is threaded and nothing serialises requests,  *)
(* so a handler is one step per store operation (the SELECT of get_or_404, *)
(* the UPDATE or DELETE of the commit, the SELECT that reloads an expired  *)
(* attribute) and the steps of two requests interleave.                    *)
(*                                                                         *)
(* Text is a sequence of characters; a value that Python may hold as None  *)
(* (a form field that is absent, a NULL column) is None == <<>> and a      *)
(* string s is Str(s) == <<s>>.                                            *)
(***************************************************************************)
EXTENDS Integers, Sequences, FiniteSets, TLC

\* Successful creates allowed in one behaviour (ids never exceed it).
MaxCreates == 2

VARIABLES
    tasks,      \* the Task table: a set of rows
    req,        \* the request that has just ended, until its response is returned
    resp,       \* its response
    created,    \* history: number of successful creates
    deleted,    \* history: ids whose delete has succeeded
    pc,         \* each worker's position in the request it is handling
    wreq,       \* each worker's request
    sess,       \* each worker's session: the row it loaded and the row as it set it
    orig,       \* history (SpecRace): the row before either request
    commits     \* history (SpecRace): workers in the order of their commits

vars == <<tasks, req, resp, created, deleted, pc, wreq, sess, orig, commits>>

----------------------------------------------------------------------------
\* Values

None == <<>>
Str(s) == <<s>>

\* Mutant: only None is refused.
Truthy_NotNone(v) == v /= None

\* Python truthiness of an Optional[str]: None and "" are falsy.
Truthy(v) == v /= None /\ Len(v[1]) > 0

TitleTexts == {<<>>, <<" ">>, <<"a">>}
DescTexts == {<<"d">>}
\* Clock readings: two tasks can be created at the same reading or apart.
Times == {0, 1}
Ids == 1..MaxCreates

\* A submitted form: a field may be absent.
Forms ==
    { f \in UNION {[D -> TitleTexts \cup DescTexts] : D \in SUBSET {"title", "description"}} :
        /\ "title" \in DOMAIN f => f["title"] \in TitleTexts
        /\ "description" \in DOMAIN f => f["description"] \in DescTexts }

NoForm == [k \in {} |-> <<>>]

\* Forms that differ in the title: absent, empty, blank, or "a" with a
\* description.
TitleForms ==
    {NoForm, [title |-> <<>>, description |-> <<"d">>],
     [title |-> <<" ">>], [title |-> <<"a">>, description |-> <<"d">>]}
\* Forms that change a title and a description.
EditForms == {[title |-> <<" ">>], [title |-> <<"a">>, description |-> <<"d">>]}
\* One form, for requests that differ in the time of the create.
ListForms == {[title |-> <<"a">>]}
OneTime == {0}

\* request.form.get(key)
FormGet(form, key) == IF key \in DOMAIN form THEN Str(form[key]) ELSE None

----------------------------------------------------------------------------
\* The Task model and its table

\* Task(title=..., description=...) at INSERT: completed and created_at take
\* their column defaults, id is the primary key the store assigns.
Task(id, title, description, now) ==
    [id |-> id, title |-> title, description |-> description,
     completed |-> FALSE, created_at |-> now]

Max(S) == CHOOSE m \in S : \A x \in S : x <= m

TaskIds(db) == {t.id : t \in db}

\* Mutant: the largest id, not one more.
NextId_Max(db) == IF db = {} THEN 1 ELSE Max(TaskIds(db))

\* The integer primary key of a new row: SQLite's rowid, one more than the
\* largest id in the table, 1 in an empty table.
NextId(db) == IF db = {} THEN 1 ELSE Max(TaskIds(db)) + 1

\* Task.query.get(task_id): the rows with that primary key.
QueryGet(db, task_id) == {t \in db : t.id = task_id}

RECURSIVE RowidScan(_)
\* The table scanned in primary-key order.
RowidScan(db) ==
    IF db = {} THEN <<>>
    ELSE LET t == CHOOSE r \in db : \A u \in db : r.id <= u.id
         IN <<t>> \o RowidScan(db \ {t})

RECURSIVE SortInsert_Strict(_, _)
\* Mutant: a row goes before the rows of equal created_at.
SortInsert_Strict(sorted, t) ==
    IF sorted = <<>> THEN <<t>>
    ELSE IF Head(sorted).created_at > t.created_at
         THEN <<Head(sorted)>> \o SortInsert_Strict(Tail(sorted), t)
         ELSE <<t>> \o sorted

RECURSIVE SortInsert(_, _)
\* One row put into a list sorted by created_at descending, after the rows
\* that do not sort after it (the sort keeps the scan order of equal keys).
SortInsert(sorted, t) ==
    IF sorted = <<>> THEN <<t>>
    ELSE IF Head(sorted).created_at >= t.created_at
         THEN <<Head(sorted)>> \o SortInsert(Tail(sorted), t)
         ELSE <<t>> \o sorted

RECURSIVE OrderByCreatedAtDesc(_)
\* ORDER BY created_at DESC over a scan.
OrderByCreatedAtDesc(scan) ==
    IF scan = <<>> THEN <<>>
    ELSE SortInsert(OrderByCreatedAtDesc(SubSeq(scan, 1, Len(scan) - 1)),
                    scan[Len(scan)])

\* Task.query.order_by(Task.created_at.desc()).all()
ListAll(db) == OrderByCreatedAtDesc(RowidScan(db))

----------------------------------------------------------------------------
\* Responses

NoLocation == [endpoint |-> "", args |-> <<>>]
UrlFor(endpoint, args) == [endpoint |-> endpoint, args |-> args]
Flash(message, category) == [category |-> category, message |-> message]

Redirect(location, flashes) ==
    [status |-> 302, location |-> location, flash |-> flashes,
     template |-> "", context |-> <<>>]
RenderTemplate(template, context) ==
    [status |-> 200, location |-> NoLocation, flash |-> <<>>,
     template |-> template, context |-> context]
Abort404 ==
    [status |-> 404, location |-> NoLocation, flash |-> <<>>,
     template |-> "", context |-> <<>>]
\* An exception the handler does not catch.
ServerError ==
    [status |-> 500, location |-> NoLocation, flash |-> <<>>,
     template |-> "", context |-> <<>>]

----------------------------------------------------------------------------
\* The session: flush and commit

Columns == {"title", "description", "completed", "created_at"}

\* The attributes of a loaded object whose value differs from the loaded one:
\* the columns the flush writes.
Changed(loaded, current) == {c \in Columns : current[c] /= loaded[c]}

\* Mutant: the UPDATE has no WHERE clause.
Update_NoWhere(db, task_id, cols, values) ==
    { [c \in DOMAIN t |-> IF c \in cols THEN values[c] ELSE t[c]] : t \in db }

\* UPDATE task SET <cols> = <values> WHERE id = task_id
Update(db, task_id, cols, values) ==
    { IF t.id = task_id
      THEN [c \in DOMAIN t |-> IF c \in cols THEN values[c] ELSE t[c]]
      ELSE t : t \in db }

\* Mutant: the flush writes every column of the object, changed or not.
SessionCommit_AllColumns(db, loaded, current) ==
    { IF t.id = loaded.id THEN current ELSE t : t \in db }

\* db.session.commit() with one modified object in the session.
SessionCommit(db, loaded, current) ==
    Update(db, loaded.id, Changed(loaded, current), current)

\* The flush of a session holding one loaded object: no statement when no
\* attribute changed, StaleDataError when the UPDATE matches no row.
Flush(db, loaded, current) ==
    IF Changed(loaded, current) = {} THEN [ok |-> TRUE, db |-> db]
    ELSE IF QueryGet(db, loaded.id) = {} THEN [ok |-> FALSE, db |-> db]
    ELSE [ok |-> TRUE, db |-> SessionCommit(db, loaded, current)]

\* An attribute read after the commit reloads the row.
Refresh(db, task_id) == CHOOSE t \in QueryGet(db, task_id) : TRUE


----------------------------------------------------------------------------
\* The route handlers, one operator per store operation: the table it leaves
\* and, when the request ends there, the response

NoRow == [id |-> 0, title |-> None, description |-> None,
          completed |-> FALSE, created_at |-> 0]
NoSession == [loaded |-> NoRow, current |-> NoRow]
NoResponse == [status |-> 0, location |-> NoLocation, flash |-> <<>>,
               template |-> "", context |-> <<>>]

Result(db, response) == [db |-> db, resp |-> response]
\* The request ends at its first store operation.
Ended(response) == [done |-> TRUE, resp |-> response, session |-> NoSession]
\* The request goes on with the object it loaded and modified.
Loaded(task, dirty) ==
    [done |-> FALSE, resp |-> NoResponse,
     session |-> [loaded |-> task, current |-> dirty]]

index(db) == Result(db, RenderTemplate("index.html", ListAll(db)))

add_task(db, method, form, now) ==
    IF method = "POST"
    THEN LET title == FormGet(form, "title")
             description == FormGet(form, "description")
         IN IF ~Truthy(title)
            THEN Result(db, Redirect(UrlFor("add_task", <<>>),
                                     <<Flash("Title is required!", "error")>>))
            ELSE LET new_task == Task(NextId(db), title, description, now)
                 IN Result(db \cup {new_task},
                           Redirect(UrlFor("index", <<>>),
                                    <<Flash("Task added successfully!", "success")>>))
    ELSE Result(db, RenderTemplate("add_task.html", <<>>))

\* Mutant: the title is not validated.
edit_task_load_NoValidation(db, method, task_id, form) ==
    IF QueryGet(db, task_id) = {}
    THEN Ended(Abort404)
    ELSE LET task == CHOOSE t \in QueryGet(db, task_id) : TRUE
         IN IF method = "POST"
            THEN Loaded(task, [task EXCEPT !.title = FormGet(form, "title"),
                                           !.description = FormGet(form, "description")])
            ELSE Ended(RenderTemplate("edit_task.html", <<task>>))

\* Mutant: the title is validated before the task is looked up.
edit_task_load_ValidateFirst(db, method, task_id, form) ==
    IF method = "POST" /\ ~Truthy(FormGet(form, "title"))
    THEN Ended(Redirect(UrlFor("edit_task", <<task_id>>),
                        <<Flash("Title is required!", "error")>>))
    ELSE IF QueryGet(db, task_id) = {}
    THEN Ended(Abort404)
    ELSE LET task == CHOOSE t \in QueryGet(db, task_id) : TRUE
         IN IF method = "POST"
            THEN Loaded(task, [task EXCEPT !.title = FormGet(form, "title"),
                                           !.description = FormGet(form, "description")])
            ELSE Ended(RenderTemplate("edit_task.html", <<task>>))

\* edit_task up to its commit: get_or_404, the assignments, the validation.
edit_task_load(db, method, task_id, form) ==
    IF QueryGet(db, task_id) = {}
    THEN Ended(Abort404)
    ELSE LET task == CHOOSE t \in QueryGet(db, task_id) : TRUE
         IN IF method = "POST"
            THEN LET dirty == [task EXCEPT !.title = FormGet(form, "title"),
                                           !.description = FormGet(form, "description")]
                 IN IF ~Truthy(dirty.title)
                    \* no commit: the session is dropped with the request
                    THEN Ended(Redirect(UrlFor("edit_task", <<task_id>>),
                                        <<Flash("Title is required!", "error")>>))
                    ELSE Loaded(task, dirty)
            ELSE Ended(RenderTemplate("edit_task.html", <<task>>))

\* edit_task from its commit on.
edit_task_commit(db, session) ==
    LET f == Flush(db, session.loaded, session.current)
    IN IF f.ok
       THEN Result(f.db, Redirect(UrlFor("index", <<>>),
                                  <<Flash("Task updated successfully!", "success")>>))
       ELSE Result(db, ServerError)

\* delete_task up to its commit.
delete_task_load(db, task_id) ==
    IF QueryGet(db, task_id) = {}
    THEN Ended(Abort404)
    ELSE LET task == CHOOSE t \in QueryGet(db, task_id) : TRUE
         IN Loaded(task, task)

\* delete_task from its commit on: a DELETE that matches no row only warns.
delete_task_commit(db, session) ==
    Result(db \ QueryGet(db, session.loaded.id),
           Redirect(UrlFor("index", <<>>),
                    <<Flash("Task deleted successfully!", "success")>>))

\* Mutant: the task is marked completed, not toggled.
toggle_task_load_SetTrue(db, task_id) ==
    IF QueryGet(db, task_id) = {}
    THEN Ended(Abort404)
    ELSE LET task == CHOOSE t \in QueryGet(db, task_id) : TRUE
         IN Loaded(task, [task EXCEPT !.completed = TRUE])

\* toggle_task up to its commit.
toggle_task_load(db, task_id) ==
    IF QueryGet(db, task_id) = {}
    THEN Ended(Abort404)
    ELSE LET task == CHOOSE t \in QueryGet(db, task_id) : TRUE
         IN Loaded(task, [task EXCEPT !.completed = ~task.completed])

\* The commit of toggle_task.
toggle_task_commit(db, session) == Flush(db, session.loaded, session.current)

\* f'Task {status}!'
ToggleMessage(completed) == IF completed THEN "Task completed!" ELSE "Task reopened!"

\* toggle_task after its commit: task.completed is reloaded (ObjectDeletedError
\* when the row is gone).
toggle_task_respond(db, session) ==
    IF QueryGet(db, session.loaded.id) = {}
    THEN ServerError
    ELSE Redirect(UrlFor("index", <<>>),
                  <<Flash(ToggleMessage(Refresh(db, session.loaded.id).completed),
                          "success")>>)

\* The handlers run with no other request between their store operations.
edit_task(db, method, task_id, form) ==
    LET l == edit_task_load(db, method, task_id, form)
    IN IF l.done THEN Result(db, l.resp) ELSE edit_task_commit(db, l.session)

delete_task(db, task_id) ==
    LET l == delete_task_load(db, task_id)
    IN IF l.done THEN Result(db, l.resp) ELSE delete_task_commit(db, l.session)

toggle_task(db, task_id) ==
    LET l == toggle_task_load(db, task_id)
        f == toggle_task_commit(db, l.session)
    IN IF l.done THEN Result(db, l.resp)
       ELSE IF ~f.ok THEN Result(db, ServerError)
       ELSE Result(f.db, toggle_task_respond(f.db, l.session))

----------------------------------------------------------------------------
\* The server: requests handled by two threads, a step per store operation.
\* req and resp hold the request that ended at the last step and its
\* response, until Return hands the response to the client.

Workers == {1, 2}

NoRequest == [method |-> "", endpoint |-> "", task_id |-> 0, form |-> NoForm]
Request(method, endpoint, task_id, form) ==
    [method |-> method, endpoint |-> endpoint, task_id |-> task_id, form |-> form]

Init ==
    /\ tasks = {}
    /\ req = NoRequest
    /\ resp = NoResponse
    /\ created = 0
    /\ deleted = {}
    /\ pc = [w \in Workers |-> "idle"]
    /\ wreq = [w \in Workers |-> NoRequest]
    /\ sess = [w \in Workers |-> NoSession]
    /\ orig = NoRow
    /\ commits = <<>>

workervars == <<pc, wreq, sess>>
histvars == <<created, deleted>>
racevars == <<orig, commits>>

\* The request r ends with this response.
Ends(r, response) == req' = r /\ resp' = response

\* Worker w goes on to its next store operation.
GoesOn(w, to, r, session) ==
    /\ pc' = [pc EXCEPT ![w] = to]
    /\ wreq' = [wreq EXCEPT ![w] = r]
    /\ sess' = [sess EXCEPT ![w] = session]

\* Worker w is free for another request.
Frees(w) == GoesOn(w, "idle", NoRequest, NoSession)

\* A request whose handler makes one store operation at most.
Handled(r, result) ==
    /\ resp = NoResponse
    /\ tasks' = result.db
    /\ Ends(r, result.resp)
    /\ UNCHANGED <<workervars, racevars>>

\* The first store operation of edit_task, delete_task or toggle_task: the
\* request ends there, or worker w holds what it loaded.
Begun(w, r, l) ==
    /\ resp = NoResponse
    /\ l.done \/ pc[w] = "idle"
    /\ IF l.done
       THEN Ends(r, l.resp) /\ UNCHANGED workervars
       ELSE GoesOn(w, "loaded", r, l.session) /\ UNCHANGED <<req, resp>>
    /\ UNCHANGED <<tasks, histvars, racevars>>

Return ==
    /\ resp /= NoResponse
    /\ req' = NoRequest
    /\ resp' = NoResponse
    /\ UNCHANGED <<tasks, workervars, histvars, racevars>>

Index ==
    /\ Handled(Request("GET", "index", 0, NoForm), index(tasks))
    /\ UNCHANGED histvars

AddGet ==
    /\ Handled(Request("GET", "add_task", 0, NoForm), add_task(tasks, "GET", NoForm, 0))
    /\ UNCHANGED histvars

AddPost(forms, times) ==
    \E form \in forms, now \in times :
        LET r == add_task(tasks, "POST", form, now)
        IN /\ r.db /= tasks => created < MaxCreates
           /\ Handled(Request("POST", "add_task", 0, form), r)
           /\ created' = IF r.db /= tasks THEN created + 1 ELSE created
           /\ UNCHANGED deleted

EditGet ==
    \E task_id \in Ids :
        /\ Handled(Request("GET", "edit_task", task_id, NoForm),
                   edit_task(tasks, "GET", task_id, NoForm))
        /\ UNCHANGED histvars

EditLoad(w, forms) ==
    \E task_id \in Ids, form \in forms :
        Begun(w, Request("POST", "edit_task", task_id, form),
              edit_task_load(tasks, "POST", task_id, form))

EditCommit(w) ==
    /\ resp = NoResponse
    /\ pc[w] = "loaded" /\ wreq[w].endpoint = "edit_task"
    /\ LET r == edit_task_commit(tasks, sess[w])
       IN tasks' = r.db /\ Ends(wreq[w], r.resp)
    /\ Frees(w)
    /\ UNCHANGED <<histvars, racevars>>

DeleteLoad(w) ==
    \E task_id \in Ids :
        Begun(w, Request("GET", "delete_task", task_id, NoForm),
              delete_task_load(tasks, task_id))

DeleteCommit(w) ==
    /\ resp = NoResponse
    /\ pc[w] = "loaded" /\ wreq[w].endpoint = "delete_task"
    /\ LET r == delete_task_commit(tasks, sess[w])
       IN tasks' = r.db /\ Ends(wreq[w], r.resp)
    /\ deleted' = deleted \cup {wreq[w].task_id}
    /\ Frees(w)
    /\ UNCHANGED <<created, racevars>>

ToggleLoad(w) ==
    \E task_id \in Ids :
        Begun(w, Request("GET", "toggle_task", task_id, NoForm),
              toggle_task_load(tasks, task_id))

ToggleCommit(w) ==
    /\ resp = NoResponse
    /\ pc[w] = "loaded" /\ wreq[w].endpoint = "toggle_task"
    /\ LET f == toggle_task_commit(tasks, sess[w])
       IN /\ tasks' = f.db
          /\ IF f.ok
             THEN /\ GoesOn(w, "committed", wreq[w], sess[w])
                  /\ UNCHANGED <<req, resp>>
             ELSE Ends(wreq[w], ServerError) /\ Frees(w)
    /\ UNCHANGED <<histvars, racevars>>

ToggleRespond(w) ==
    /\ resp = NoResponse
    /\ pc[w] = "committed"
    /\ Ends(wreq[w], toggle_task_respond(tasks, sess[w]))
    /\ Frees(w)
    /\ UNCHANGED <<tasks, histvars, racevars>>

Next(forms, times) ==
    \/ Return
    \/ Index \/ AddGet \/ AddPost(forms, times) \/ EditGet
    \/ \E w \in Workers :
          \/ EditLoad(w, forms) \/ EditCommit(w)
          \/ DeleteLoad(w) \/ DeleteCommit(w)
          \/ ToggleLoad(w) \/ ToggleCommit(w) \/ ToggleRespond(w)

\* Requests that differ in their titles.
Spec == Init /\ [][Next(TitleForms, OneTime)]_vars

\* Requests that differ in the time of their creates.
SpecList == Init /\ [][Next(ListForms, Times)]_vars

\* Requests that differ in the time of their creates and in what their edits
\* change.
SpecEdit == Init /\ [][Next(EditForms, Times)]_vars

----------------------------------------------------------------------------
\* Two requests on one task, each an edit POST or a toggle, with the history
\* of what each loaded and of the order of the commits.

\* The id the store gave the one task of the table.
RaceId == NextId({})

\* A table the server reaches: one task, any title add_task accepts, toggled
\* or not.
RaceRows ==
    { [Task(RaceId, Str(title), description, now) EXCEPT !.completed = completed] :
        title \in {t \in TitleTexts : Truthy(Str(t))},
        description \in {None} \cup {Str(d) : d \in DescTexts},
        now \in Times, completed \in BOOLEAN }

InitRace ==
    /\ \E row \in RaceRows : tasks = {row} /\ orig = row
    /\ req = NoRequest
    /\ resp = NoResponse
    /\ created = 1
    /\ deleted = {}
    /\ pc = [w \in Workers |-> "idle"]
    /\ wreq = [w \in Workers |-> NoRequest]
    /\ sess = [w \in Workers |-> NoSession]
    /\ commits = <<>>

RaceRequests ==
    {Request("POST", "edit_task", RaceId, f) : f \in Forms}
    \cup {Request("GET", "toggle_task", RaceId, NoForm)}

RaceLoad(w) ==
    /\ pc[w] = "idle"
    /\ \E r \in RaceRequests :
        LET l == IF r.endpoint = "edit_task"
                 THEN edit_task_load(tasks, r.method, r.task_id, r.form)
                 ELSE toggle_task_load(tasks, r.task_id)
        IN /\ GoesOn(w, IF l.done THEN "done" ELSE "loaded", r, l.session)
           /\ IF l.done THEN Ends(r, l.resp) ELSE UNCHANGED <<req, resp>>
    /\ UNCHANGED <<tasks, histvars, racevars>>

RaceCommit(w) ==
    /\ pc[w] = "loaded"
    /\ IF wreq[w].endpoint = "edit_task"
       THEN LET r == edit_task_commit(tasks, sess[w])
            IN /\ tasks' = r.db
               /\ Ends(wreq[w], r.resp)
               /\ pc' = [pc EXCEPT ![w] = "done"]
       ELSE LET f == toggle_task_commit(tasks, sess[w])
            IN /\ tasks' = f.db
               /\ pc' = [pc EXCEPT ![w] = IF f.ok THEN "committed" ELSE "done"]
               /\ IF f.ok THEN UNCHANGED <<req, resp>>
                  ELSE Ends(wreq[w], ServerError)
    /\ commits' = Append(commits, w)
    /\ UNCHANGED <<histvars, wreq, sess, orig>>

RaceRespond(w) ==
    /\ pc[w] = "committed"
    /\ Ends(wreq[w], toggle_task_respond(tasks, sess[w]))
    /\ pc' = [pc EXCEPT ![w] = "done"]
    /\ UNCHANGED <<tasks, histvars, wreq, sess, racevars>>

NextRace == \E w \in Workers : RaceLoad(w) \/ RaceCommit(w) \/ RaceRespond(w)

SpecRace == InitRace /\ [][NextRace]_vars

----------------------------------------------------------------------------
\* Vocabulary of the claims

HasTitle(form) == "title" \in DOMAIN form /\ form["title"] /= <<>>
IsBlank(text) == \A i \in 1..Len(text) : text[i] = " "
\* missing, empty, or made only of whitespace
BlankTitle(form) == "title" \in DOMAIN form => IsBlank(form["title"])

IsRequest(r, method, endpoint) == r.method = method /\ r.endpoint = endpoint
Exists(db, task_id) == \E t \in db : t.id = task_id
Others(db, task_id) == {t \in db : t.id /= task_id}
FlashedOnce(r, category) == Len(r.flash) = 1 /\ r.flash[1].category = category
RedirectsTo(r, endpoint, args) ==
    r.status = 302 /\ r.location = [endpoint |-> endpoint, args |-> args]

\* This step ends a request, req'; its response is resp'.
Answers == resp = NoResponse /\ resp' /= NoResponse
\* This step is the first store operation of the request it ends.
AnswersAtLookup == Answers /\ pc' = pc
\* This step takes worker w from the commit of its request on.
Commits(w, endpoint) ==
    pc[w] = "loaded" /\ pc'[w] /= "loaded" /\ wreq[w].endpoint = endpoint

----------------------------------------------------------------------------
\* C1: after any sequence of add, edit, toggle and delete requests, every
\* persisted task has a non-empty title and an id that no other persisted
\* task has.
C1_TitleAndUniqueId ==
    \A t \in tasks :
        /\ t.title /= None
        /\ t.title[1] /= <<>>
        /\ \A u \in tasks : u.id = t.id => u = t

\* A task that was toggled is persisted after an edit committed, in a store
\* that has seen a delete.
C1_Witness ==
    /\ IsRequest(req, "POST", "edit_task") /\ RedirectsTo(resp, "index", <<>>)
    /\ deleted /= {}
    /\ \E t \in tasks : t.completed

\* C2: a POST to /add with a non-empty title adds exactly one task, with
\* completed = FALSE and an id that no persisted task had, leaves every other
\* task as it was, flashes 'success' and redirects to the list.
C2_AddCreatesFreshTask ==
    [][ (Answers /\ IsRequest(req', "POST", "add_task") /\ HasTitle(req'.form)) =>
          /\ \E t \in tasks' :
                /\ t \notin tasks
                /\ tasks' = tasks \cup {t}
                /\ Cardinality(tasks') = Cardinality(tasks) + 1
                /\ t.completed = FALSE
                /\ t.id \notin TaskIds(tasks)
                /\ t.title = Str(req'.form["title"])
          /\ FlashedOnce(resp', "success")
          /\ RedirectsTo(resp', "index", <<>>) ]_vars

\* An add has succeeded while a request on an id whose delete had succeeded
\* is between its load and its commit.
C2_Witness ==
    /\ IsRequest(req, "POST", "add_task") /\ HasTitle(req.form)
    /\ FlashedOnce(resp, "success")
    /\ deleted /= {}
    /\ \E w \in Workers : pc[w] = "loaded" /\ wreq[w].task_id \in deleted

\* C3: a POST to /add whose title is missing, empty or only whitespace flashes
\* 'error', redirects to /add and inserts nothing.
C3_BlankTitleRejected ==
    [][ (Answers /\ IsRequest(req', "POST", "add_task") /\ BlankTitle(req'.form)) =>
          /\ tasks' = tasks
          /\ FlashedOnce(resp', "error")
          /\ RedirectsTo(resp', "add_task", <<>>) ]_vars

\* C4: a successful POST to /edit/{id} changes only the title and the
\* description of task id, each to the submitted value or not at all; the
\* task's id, created_at and completed, and every other task, are as before
\* the commit.  An edit that commits the row it loaded sets both columns to
\* the submitted values.
C4_EditFrame ==
    [][ \A w \in Workers :
          (Commits(w, "edit_task") /\ RedirectsTo(resp', "index", <<>>)) =>
              LET id == wreq[w].task_id
                  title == FormGet(wreq[w].form, "title")
                  description == FormGet(wreq[w].form, "description")
              IN /\ req' = wreq[w]
                 /\ Others(tasks', id) = Others(tasks, id)
                 /\ Exists(tasks', id) = Exists(tasks, id)
                 /\ \A t \in tasks, e \in tasks' :
                       (t.id = id /\ e.id = id) =>
                           /\ e.created_at = t.created_at
                           /\ e.completed = t.completed
                           /\ e.title \in {t.title, title}
                           /\ e.description \in {t.description, description}
                           /\ sess[w].loaded = t =>
                                 e.title = title /\ e.description = description ]_vars

\* An edit has committed a new title to a completed task while a task of
\* another title, created at another time, is persisted.
C4_Witness ==
    /\ IsRequest(req, "POST", "edit_task") /\ RedirectsTo(resp, "index", <<>>)
    /\ Cardinality(tasks) = 2
    /\ \E t \in tasks :
          /\ t.id = req.task_id /\ t.completed
          /\ t.title = Str(req.form["title"])
          /\ \E u \in tasks : u.title /= t.title /\ u.created_at /= t.created_at

\* C5: a POST to /edit/{id} for an existing task with an empty (or missing)
\* title flashes 'error', redirects to /edit/{id} and persists nothing: the
\* store, which every later request reads, is as before, and no request holds
\* an empty title for a commit.
C5_EmptyTitleEditPersistsNothing ==
    [][ /\ (/\ Answers
            /\ IsRequest(req', "POST", "edit_task")
            /\ Exists(tasks, req'.task_id)
            /\ ~HasTitle(req'.form)) =>
              /\ tasks' = tasks
              /\ UNCHANGED <<pc, wreq, sess>>
              /\ FlashedOnce(resp', "error")
              /\ RedirectsTo(resp', "edit_task", <<req'.task_id>>)
        /\ \A w \in Workers :
              (pc'[w] /= "idle" /\ wreq'[w].endpoint = "edit_task") =>
                  HasTitle(wreq'[w].form) /\ sess'[w].current.title /= Str(<<>>) ]_vars

\* An edit with an empty title and a description other than the stored one
\* was refused.
C5_Witness ==
    /\ IsRequest(req, "POST", "edit_task")
    /\ HasTitle(req.form) = FALSE
    /\ FlashedOnce(resp, "error")
    /\ \E t \in tasks :
          t.id = req.task_id /\ t.description /= FormGet(req.form, "description")

\* C6: once /delete/{id} has succeeded for an id, no task has that id again
\* (so edit, toggle and delete on it respond 404), whatever requests follow.
C6_DeletedStaysGone ==
    \A task_id \in deleted : QueryGet(tasks, task_id) = {}

\* C7 as stated: a /toggle/{id} of an existing task persists the negation of
\* the task's completed value and changes nothing else.
C7_ToggleFlips ==
    [][ \A w \in Workers :
          (Commits(w, "toggle_task") /\ Exists(tasks, wreq[w].task_id)) =>
              \E t \in tasks :
                  /\ t.id = wreq[w].task_id
                  /\ tasks' = (tasks \ {t}) \cup {[t EXCEPT !.completed = ~t.completed]} ]_vars

\* C7 as amended: when a task has the id at the commit of a /toggle/{id},
\* the commit sets the completed column of that task to the negation of the
\* value the request loaded and changes nothing else (when no task has the id
\* it changes nothing); when a task has the id as the request answers, the
\* flash is 'completed' or 'reopened' after the value then stored.  A toggle
\* with no other request between its steps persists the negation of the
\* stored value and flashes after it, and a second such toggle restores the
\* store.
C7_ToggleFlipsLoaded ==
    [][ /\ \A w \in Workers :
              LET id == wreq[w].task_id
              IN /\ (Commits(w, "toggle_task") /\ Exists(tasks, id)) =>
                       /\ pc'[w] = "committed"
                       /\ \E t \in tasks :
                             /\ t.id = id
                             /\ tasks' = (tasks \ {t}) \cup
                                  {[t EXCEPT !.completed = ~sess[w].loaded.completed]}
                 /\ (Commits(w, "toggle_task") /\ ~Exists(tasks, id)) => tasks' = tasks
                 /\ (pc[w] = "committed" /\ pc'[w] /= "committed") =>
                       /\ tasks' = tasks
                       /\ req' = wreq[w]
                       /\ Exists(tasks, id) =>
                             /\ RedirectsTo(resp', "index", <<>>)
                             /\ resp'.flash =
                                  <<Flash(IF \E t \in tasks : t.id = id /\ t.completed
                                          THEN "Task completed!" ELSE "Task reopened!",
                                          "success")>>
        /\ tasks' /= tasks =>
           \A t \in tasks' :
              LET flipped == (tasks' \ {t}) \cup {[t EXCEPT !.completed = ~t.completed]}
                  once == toggle_task(tasks', t.id)
                  twice == toggle_task(once.db, t.id)
              IN /\ once.db = flipped
                 /\ RedirectsTo(once.resp, "index", <<>>)
                 /\ once.resp.flash = <<Flash(IF ~t.completed THEN "Task completed!"
                                              ELSE "Task reopened!", "success")>>
                 /\ twice.db = tasks' ]_vars

\* Two toggles of one task have committed from the same loaded value, and the
\* task's completed was negated once; the other task has another title and
\* another created_at.
C7_Witness ==
    /\ \A w \in Workers : pc[w] = "committed"
    /\ wreq[1].task_id = wreq[2].task_id
    /\ sess[1].loaded.completed = sess[2].loaded.completed
    /\ Cardinality(tasks) = 2
    /\ \E t, u \in tasks :
          /\ t.id = wreq[1].task_id /\ t.completed = ~sess[1].loaded.completed
          /\ u.title /= t.title /\ u.created_at /= t.created_at

\* C8: GET / after N successful creates and no deletes returns exactly N
\* tasks, ordered by created_at descending and, among equal created_at, by id
\* ascending; the request changes nothing in the store.
C8_ListOrdered ==
    [][ (Answers /\ IsRequest(req', "GET", "index")) =>
          LET l == resp'.context
          IN /\ tasks' = tasks
             /\ resp'.status = 200
             /\ {l[i] : i \in 1..Len(l)} = tasks
             /\ Len(l) = Cardinality(tasks)
             /\ deleted = {} => Len(l) = created
             /\ \A i, j \in 1..Len(l) :
                   i < j => \/ l[i].created_at > l[j].created_at
                            \/ /\ l[i].created_at = l[j].created_at
                               /\ l[i].id < l[j].id ]_vars

\* The list was served after two creates and no delete, the older task
\* listed last.
C8_Witness ==
    /\ IsRequest(req, "GET", "index")
    /\ created = 2 /\ deleted = {}
    /\ Len(resp.context) = 2
    /\ resp.context[1].id = 2
    /\ resp.context[1].created_at > resp.context[2].created_at

\* C9: for an id no persisted task has when the handler looks it up, GET and
\* POST /edit/{id} (whatever the title), /delete/{id} and /toggle/{id} respond
\* 404, flash nothing and leave the store as it was; no request goes on to a
\* commit for such an id.
C9_UnknownId404 ==
    [][ /\ (/\ AnswersAtLookup
            /\ req'.endpoint \in {"edit_task", "delete_task", "toggle_task"}
            /\ ~Exists(tasks, req'.task_id)) =>
              /\ resp'.status = 404
              /\ resp'.flash = <<>>
              /\ tasks' = tasks
        /\ \A w \in Workers :
              (pc[w] = "idle" /\ pc'[w] /= "idle") => Exists(tasks, wreq'[w].task_id) ]_vars

\* An edit POST with an empty title for an unknown id was answered 404 while
\* the store holds a task.
C9_Witness ==
    /\ IsRequest(req, "POST", "edit_task")
    /\ ~HasTitle(req.form)
    /\ ~Exists(tasks, req.task_id)
    /\ resp.status = 404
    /\ tasks /= {}

----------------------------------------------------------------------------
\* Two requests on one task

RaceDone == \A w \in Workers : pc[w] = "done"

\* The table after one request handled alone.
Handle(db, r) ==
    IF r.endpoint = "edit_task"
    THEN edit_task(db, "POST", r.task_id, r.form).db
    ELSE toggle_task(db, r.task_id).db

\* The table after the two requests one after the other.
Serial(first, second) == Handle(Handle({orig}, wreq[first]), wreq[second])

\* Worker commits[i] changed column c of the row it had loaded.
Wrote(i, c) == sess[commits[i]].current[c] /= sess[commits[i]].loaded[c]

\* Column c as its last writer among the first n commits set it.
ColumnAfter(n, c) ==
    IF \E i \in 1..n : Wrote(i, c)
    THEN sess[commits[Max({i \in 1..n : Wrote(i, c)})]].current[c]
    ELSE orig[c]

RowAfter(n) ==
    [orig EXCEPT !.title = ColumnAfter(n, "title"),
                 !.description = ColumnAfter(n, "description"),
                 !.completed = ColumnAfter(n, "completed"),
                 !.created_at = ColumnAfter(n, "created_at")]

\* C10 as stated: when two requests on one task interleave, the persisted task
\* is what running the two requests one after the other, in some order, leaves.
C10_SerialOutcome ==
    RaceDone => tasks \in {Serial(1, 2), Serial(2, 1)}

\* C10 as amended: each commit writes, atomically, the columns its request
\* changed in the row it had loaded, and per column the later commit wins.  An
\* edit racing a toggle leaves what the two leave one after the other, and so
\* do two requests of which the later committer loaded the row the earlier
\* commit left.
C10_LastWriterPerColumn ==
    RaceDone =>
        /\ tasks = {RowAfter(Len(commits))}
        /\ wreq[1].endpoint /= wreq[2].endpoint =>
              tasks = Serial(1, 2) /\ tasks = Serial(2, 1)
        /\ (Len(commits) = 2 /\ sess[commits[2]].loaded = RowAfter(1)) =>
              tasks = Serial(commits[1], commits[2])

\* Two toggles both loaded the row before either committed: completed is
\* negated once, which neither order of the two toggles leaves.
C10_Witness ==
    /\ RaceDone
    /\ \A w \in Workers : wreq[w].endpoint = "toggle_task" /\ sess[w].loaded = orig
    /\ Len(commits) = 2
    /\ tasks = {[orig EXCEPT !.completed = ~orig.completed]}
    /\ tasks /= Serial(1, 2)

====
